---- MODULE Spec2Model ----
(***************************************************************************)
(* A model of src/src/utils/DOM.js: the DOM helper class (createTable,     *)
(* replaceBackgroundByImg) and the two blog importers (variant 1 at lines  *)
(* 73-273, variant 2 at lines 298-529) whose process() rewrites a parsed   *)
(* document in place.                                                      *)
(*                                                                         *)
(* Strings the code inspects character by character are sequences of       *)
(* one-character strings.  The document is a sequence of node records;     *)
(* a node's identity is its index; 0 is null.                              *)
(***************************************************************************)
EXTENDS Integers, Sequences, FiniteSets, TLC

VARIABLES
    pc,        \* position of the running operation
    variant,   \* 1: importer at lines 73-273, 2: importer at lines 298-529
    nodes,     \* the document: every node ever created, attached or not
    main,      \* process: const main
    title,     \* process: const title
    hero,      \* process: let hero
    meta,      \* the Metadata Map: a sequence of entries in insertion order
    html,      \* variant 2: the raw response body, as far as createMetadata reads it
    warnings,  \* number of console.warn calls
    out,       \* the PageImporterResource list process returns
    trace,     \* the steps process has performed, in order
    arg,       \* the argument of a directly called function
    ret        \* the value a directly called function returned

vars == <<pc, variant, nodes, main, title, hero, meta, html, warnings, out, trace, arg, ret>>

Null == 0

(***************************************************************************)
(* Strings                                                                 *)
(***************************************************************************)
Letters ==
    {"a","b","c","d","e","f","g","h","i","j","k","l","m","n","o","p","q","r","s","t","u","v","w","x","y","z",
     "A","B","C","D","E","F","G","H","I","J","K","L","M","N","O","P","Q","R","S","T","U","V","W","X","Y","Z"}

Digits == {"0","1","2","3","4","5","6","7","8","9"}

\* /[A-Za-z0-9]/.test(c); c is one character or the empty string
IsAlnum(c) == c \in Letters \cup Digits

\* what String.prototype.trim strips
WhiteSpace == {" ", "\n", "\t"}

RECURSIVE TrimStart(_)
TrimStart(s) ==
    IF s # <<>> /\ Head(s) \in WhiteSpace THEN TrimStart(Tail(s)) ELSE s

RECURSIVE TrimEnd(_)
TrimEnd(s) ==
    IF s # <<>> /\ s[Len(s)] \in WhiteSpace THEN TrimEnd(SubSeq(s, 1, Len(s) - 1)) ELSE s

Trim(s) == TrimEnd(TrimStart(s))

\* s.charAt(i), i counted from 0: the empty string outside the string
CharAt(s, i) == IF i >= 0 /\ i < Len(s) THEN <<s[i + 1]>> ELSE <<>>

\* s.indexOf(c), counted from 0, -1 when c does not occur
IndexOf(s, c) ==
    IF \E i \in 1..Len(s) : s[i] = c
    THEN (CHOOSE i \in 1..Len(s) : s[i] = c /\ \A j \in 1..(i - 1) : s[j] # c) - 1
    ELSE -1

Clamp(i, n) == IF i < 0 THEN 0 ELSE IF i > n THEN n ELSE i

\* s.substring(a, b): both ends clamped to 0..length, swapped when a > b
Substring(s, a, b) ==
    LET ca == Clamp(a, Len(s))
        cb == Clamp(b, Len(s))
        lo == IF ca <= cb THEN ca ELSE cb
        hi == IF ca <= cb THEN cb ELSE ca
    IN SubSeq(s, lo + 1, hi)

\* s.slice(a, b): a negative end counts from the end, nothing is swapped
Slice(s, a, b) ==
    LET ra == IF a < 0 THEN Clamp(Len(s) + a, Len(s)) ELSE Clamp(a, Len(s))
        rb == IF b < 0 THEN Clamp(Len(s) + b, Len(s)) ELSE Clamp(b, Len(s))
    IN SubSeq(s, ra + 1, rb)

StartsWith(s, p) == Len(s) >= Len(p) /\ SubSeq(s, 1, Len(p)) = p

\* s.replace(/pat/gm, ''), pat a literal: every occurrence found scanning left to right
RECURSIVE RemoveAll(_, _)
RemoveAll(s, pat) ==
    IF s = <<>> THEN <<>>
    ELSE IF StartsWith(s, pat) THEN RemoveAll(SubSeq(s, Len(pat) + 1, Len(s)), pat)
    ELSE <<Head(s)>> \o RemoveAll(Tail(s), pat)

\* s.split(c): the pieces between the occurrences of c; one piece when c does not occur
RECURSIVE Split(_, _)
Split(s, c) ==
    LET i == IndexOf(s, c)
    IN IF i < 0 THEN <<s>>
       ELSE <<SubSeq(s, 1, i)>> \o Split(SubSeq(s, i + 2, Len(s)), c)

\* a.join(c)
RECURSIVE Join(_, _)
Join(a, c) ==
    IF a = <<>> THEN <<>>
    ELSE IF Len(a) = 1 THEN a[1]
    ELSE a[1] \o <<c>> \o Join(Tail(a), c)

\* the sequences over alphabet of length at most n
RECURSIVE SeqsUpTo(_, _)
SeqsUpTo(alphabet, n) ==
    IF n = 0 THEN {<<>>}
    ELSE LET shorter == SeqsUpTo(alphabet, n - 1)
         IN shorter \cup {Append(s, c) : s \in shorter, c \in alphabet}

InSeq(x, s) == \E i \in 1..Len(s) : s[i] = x

\* always true; TLC evaluates v to decide it, so a loop that tests Computed(v) on
\* entry carries a value, not a growing chain of unevaluated steps
Computed(v) == Len(v) >= 0

(***************************************************************************)
(* The document tree                                                       *)
(***************************************************************************)
NoAttrs == <<>>

\* an element
El(tag, cls, attrs) ==
    [kind |-> "elem", tag |-> tag, cls |-> cls, attrs |-> attrs, kids |-> <<>>, text |-> <<>>]

\* a text node
Txt(chars) ==
    [kind |-> "text", tag |-> "#text", cls |-> {}, attrs |-> NoAttrs, kids |-> <<>>, text |-> chars]

\* the content an innerHTML assignment leaves in an element: the assigned markup
Markup(chars) ==
    [kind |-> "html", tag |-> "#markup", cls |-> {}, attrs |-> NoAttrs, kids |-> <<>>, text |-> chars]

\* the document node is the first node
Document == 1

HasAttr(node, a) == a \in DOMAIN node.attrs

\* a reflected string property (meta.content): the empty string when the attribute is missing
Reflected(node, a) == IF HasAttr(node, a) THEN node.attrs[a] ELSE <<>>

ParentOf(ns, n) ==
    IF \E p \in 1..Len(ns) : InSeq(n, ns[p].kids)
    THEN CHOOSE p \in 1..Len(ns) : InSeq(n, ns[p].kids)
    ELSE Null

IndexIn(s, x) == CHOOSE i \in 1..Len(s) : s[i] = x

Without(s, x) == SelectSeq(s, LAMBDA y : y # x)

\* n taken out of its parent's children
Detach(ns, n) == [p \in 1..Len(ns) |-> [ns[p] EXCEPT !.kids = Without(@, n)]]

\* document.createElement(tag): the new element is the last node
CreateElement(ns, tag) == Append(ns, El(tag, {}, NoAttrs))

\* p.append(c), p.appendChild(c): c leaves its former parent
AppendChild(ns, p, c) ==
    LET d == Detach(ns, c)
    IN [d EXCEPT ![p].kids = Append(@, c)]

\* old.replaceWith(new): nothing happens when old has no parent
ReplaceWith(ns, old, new) ==
    LET p == ParentOf(ns, old)
        d == Detach(ns, new)
    IN IF p = Null \/ old = new THEN ns
       ELSE [d EXCEPT ![p].kids = [i \in 1..Len(@) |-> IF @[i] = old THEN new ELSE @[i]]]

\* ref.before(n): n becomes the sibling just before ref
Before(ns, ref, n) ==
    LET p == ParentOf(ns, ref)
        d == Detach(ns, n)
        k == IndexIn(d[p].kids, ref)
    IN IF p = Null \/ ref = n THEN ns
       ELSE [d EXCEPT ![p].kids = SubSeq(@, 1, k - 1) \o <<n>> \o SubSeq(@, k, Len(@))]

\* n.remove()
RemoveNode(ns, n) == Detach(ns, n)

\* n.innerHTML = chars: the former children are gone, the markup is the content
SetInnerHTML(ns, n, chars) ==
    IF chars = <<>> THEN [ns EXCEPT ![n].kids = <<>>]
    ELSE [Append(ns, Markup(chars)) EXCEPT ![n].kids = <<Len(ns) + 1>>]

\* the descendants of the nodes ks, in document order
RECURSIVE DescendantsOf(_, _)
DescendantsOf(ns, ks) ==
    IF ks = <<>> THEN <<>>
    ELSE <<Head(ks)>> \o DescendantsOf(ns, ns[Head(ks)].kids) \o DescendantsOf(ns, Tail(ks))

Descendants(ns, n) == DescendantsOf(ns, ns[n].kids)

Contains(ns, root, n) == InSeq(n, Descendants(ns, root))

\* n.textContent
RECURSIVE TextOf(_, _)
TextOf(ns, ks) ==
    IF ks = <<>> THEN <<>>
    ELSE (IF ns[Head(ks)].kind = "elem" THEN TextOf(ns, ns[Head(ks)].kids) ELSE ns[Head(ks)].text)
         \o TextOf(ns, Tail(ks))

TextContent(ns, n) == TextOf(ns, ns[n].kids)

\* n.innerHTML read: the children serialised
RECURSIVE Serialise(_, _)
Serialise(ns, ks) ==
    IF ks = <<>> THEN <<>>
    ELSE (IF ns[Head(ks)].kind = "elem"
          THEN <<"<", ns[Head(ks)].tag, ">">> \o Serialise(ns, ns[Head(ks)].kids)
               \o <<"</", ns[Head(ks)].tag, ">">>
          ELSE ns[Head(ks)].text)
         \o Serialise(ns, Tail(ks))

InnerHTML(ns, n) == Serialise(ns, ns[n].kids)

\* selectors: a tag, one of several tags, a class, an attribute with a value
SelTag(t) == [by |-> "tag", tags |-> {t}, name |-> "", val |-> ""]
SelTags(ts) == [by |-> "tag", tags |-> ts, name |-> "", val |-> ""]
SelClass(c) == [by |-> "class", tags |-> {}, name |-> c, val |-> ""]
SelAttr(a, v) == [by |-> "attr", tags |-> {}, name |-> a, val |-> v]

Matches(node, sel) ==
    /\ node.kind = "elem"
    /\ CASE sel.by = "tag" -> node.tag \in sel.tags
         [] sel.by = "class" -> sel.name \in node.cls
         [] sel.by = "attr" -> HasAttr(node, sel.name) /\ node.attrs[sel.name] = sel.val

\* root.querySelectorAll(sel): a static list in document order
QuerySelectorAll(ns, root, sel) ==
    SelectSeq(Descendants(ns, root), LAMBDA n : Matches(ns[n], sel))

\* root.querySelector(sel): the first match or null
QuerySelector(ns, root, sel) ==
    LET all == QuerySelectorAll(ns, root, sel)
    IN IF all = <<>> THEN Null ELSE all[1]

(***************************************************************************)
(* class DOM                                                               *)
(***************************************************************************)
\* cells of the rows handed to createTable
StrCell(chars) == [t |-> "str", s |-> chars, l |-> <<>>]
ListCell(els) == [t |-> "list", s |-> <<>>, l |-> els]
ElCell(e) == [t |-> "el", s |-> <<>>, l |-> <<e>>]

RECURSIVE AppendAll(_, _, _)
AppendAll(ns, p, els) ==
    IF Computed(ns) /\ els = <<>> THEN ns ELSE AppendAll(AppendChild(ns, p, Head(els)), p, Tail(els))

\* lines 20-32: the cells of one row
RECURSIVE createTable_cells(_, _, _, _)
createTable_cells(ns, tr, row, index) ==
    IF Computed(ns) /\ row = <<>> THEN ns
    ELSE LET cell == Head(row)
             n1 == CreateElement(ns, IF index = 0 THEN "th" ELSE "td")
             t == Len(n1)
             n2 == IF cell.t = "str" THEN SetInnerHTML(n1, t, cell.s)
                   ELSE AppendAll(n1, t, cell.l)
             n3 == AppendChild(n2, tr, t)
         IN createTable_cells(n3, tr, Tail(row), index)

\* a table whose every row uses body cells
RECURSIVE createTable_rows_noHeader(_, _, _, _)
createTable_rows_noHeader(ns, table, data, index) ==
    IF Computed(ns) /\ data = <<>> THEN ns
    ELSE LET n1 == CreateElement(ns, "tr")
             tr == Len(n1)
             n2 == createTable_cells(n1, tr, Head(data), 1)
             n3 == AppendChild(n2, table, tr)
         IN createTable_rows_noHeader(n3, table, Tail(data), index + 1)

\* lines 17-34: the rows
RECURSIVE createTable_rows(_, _, _, _)
createTable_rows(ns, table, data, index) ==
    IF Computed(ns) /\ data = <<>> THEN ns
    ELSE LET n1 == CreateElement(ns, "tr")
             tr == Len(n1)
             n2 == createTable_cells(n1, tr, Head(data), index)
             n3 == AppendChild(n2, table, tr)
         IN createTable_rows(n3, table, Tail(data), index + 1)

\* DOM.createTable(data, document): the document afterwards and the table
createTable(ns, data) ==
    LET n1 == CreateElement(ns, "table")
        table == Len(n1)
    IN [ns |-> createTable_rows(n1, table, data, 0), id |-> table]

BackgroundImage == "style.background-image"

\* line 42
replaceBackgroundByImg_src(url) ==
    RemoveAll(RemoveAll(RemoveAll(url, <<"u", "r", "l", "(">>), <<"'">>), <<")">>)

\* DOM.replaceBackgroundByImg(tag, document): the document afterwards and the
\* returned element
replaceBackgroundByImg(ns, tag) ==
    LET url == Reflected(ns[tag], BackgroundImage)
    IN IF url # <<>>
       THEN LET n1 == CreateElement(ns, "img")
                img == Len(n1)
                n2 == [n1 EXCEPT ![img].attrs = ("src" :> replaceBackgroundByImg_src(url))]
            IN [ns |-> ReplaceWith(n2, tag, img), id |-> img]
       ELSE [ns |-> ns, id |-> tag]

(***************************************************************************)
(* cleanupName                                                             *)
(***************************************************************************)
\* a general trim: every leading and trailing non-alphanumeric character goes
RECURSIVE cleanupName_trimAll(_)
cleanupName_trimAll(name) ==
    IF name # <<>> /\ ~IsAlnum(name[1]) THEN cleanupName_trimAll(Tail(name))
    ELSE IF name # <<>> /\ ~IsAlnum(name[Len(name)])
         THEN cleanupName_trimAll(SubSeq(name, 1, Len(name) - 1))
    ELSE name

cleanupName(name) ==
    LET firstChar == CharAt(name, 0)
        lastChar == CharAt(name, Len(name) - 1)
        testFirst == firstChar # <<>> /\ IsAlnum(firstChar[1])
        testLast == lastChar # <<>> /\ IsAlnum(lastChar[1])
        n1 == IF ~testFirst THEN Substring(name, 1, Len(name)) ELSE name
        n2 == IF ~testLast THEN Slice(n1, 0, -1) ELSE n1
    IN n2

\* bounds of the directly called string functions
MaxNameLen == 3

NameAlphabet == {"a", "9", "-", "_"}

NameInit ==
    /\ pc = "call"
    /\ arg \in SeqsUpTo(NameAlphabet, MaxNameLen)
    /\ ret = <<>>
    /\ variant \in {1, 2}
    /\ nodes = <<>>
    /\ main = Null /\ title = Null /\ hero = Null
    /\ meta = <<>> /\ html = "none" /\ warnings = 0 /\ out = <<>> /\ trace = <<>>

CallCleanupName ==
    /\ pc = "call"
    /\ ret' = cleanupName(arg)
    /\ pc' = "returned"
    /\ UNCHANGED <<variant, nodes, main, title, hero, meta, html, warnings, out, trace, arg>>

NameNext == CallCleanupName

SpecName == NameInit /\ [][NameNext]_vars

\* C2: cleanupName returns the name without its first character iff that character
\* is not in [A-Za-z0-9] and without its last character iff that character is not in
\* [A-Za-z0-9]; every other character is kept, in place (names of length 0 and 1
\* included: a single non-alphanumeric character is both the first and the last).
C2_StripsOnePerEnd ==
    pc = "returned" =>
        LET n == Len(arg)
            dropFirst == n > 0 /\ ~IsAlnum(arg[1])
            dropLast == n > 0 /\ ~IsAlnum(arg[n])
            lo == IF dropFirst THEN 2 ELSE 1
            hi == IF dropLast THEN n - 1 ELSE n
        IN /\ Len(ret) = (IF hi >= lo THEN hi - lo + 1 ELSE 0)
           /\ \A i \in 1..Len(ret) : ret[i] = arg[lo + i - 1]

C2_Witness ==
    /\ pc = "returned"
    /\ arg = <<"-", "-", "a">>
    /\ ret = <<"-", "a">>

(***************************************************************************)
(* Collaborators of the importers                                          *)
(***************************************************************************)
RECURSIVE RemoveEach(_, _)
RemoveEach(ns, els) ==
    IF Computed(ns) /\ els = <<>> THEN ns ELSE RemoveEach(RemoveNode(ns, Head(els)), Tail(els))

\* DOMUtils.remove(document, selectors): every match of every selector is removed
RECURSIVE DOMUtils_remove(_, _)
DOMUtils_remove(ns, selectors) ==
    IF Computed(ns) /\ selectors = <<>> THEN ns
    ELSE DOMUtils_remove(RemoveEach(ns, QuerySelectorAll(ns, Document, Head(selectors))),
                         Tail(selectors))

\* an entry of the Metadata Map: a string or an element
MetaStr(key, chars) == [key |-> key, kind |-> "str", str |-> chars, el |-> Null]
MetaEl(key, e) == [key |-> key, kind |-> "el", str |-> <<>>, el |-> e]

MetaKeys(m) == {m[i].key : i \in 1..Len(m)}

MetaEntry(m, key) == m[CHOOSE i \in 1..Len(m) : m[i].key = key]

\* Blocks.getMetadataBlock(document, meta): a block named Metadata with one row
\* per entry, the key and the value
Blocks_getMetadataBlock(ns, m) ==
    createTable(ns,
        << <<StrCell(<<"Metadata">>)>> >> \o
        [i \in 1..Len(m) |->
            << StrCell(<<m[i].key>>),
               IF m[i].kind = "str" THEN StrCell(m[i].str) ELSE ElCell(m[i].el) >>])

(***************************************************************************)
(* class Importer (both variants)                                          *)
(***************************************************************************)
SelMain == SelClass("blogPostMain")
SelHero == SelClass("blogPostBanner__img")
SelRelated == SelClass("blogPostsBlock__titleLink")
SelCallout == SelClass("blogPostContent__ctaContainer")
SelToc == SelClass("blogPostContentToc")
SelMetaTop == SelClass("blogPostContent__metaTop")
SelMetaBottom == SelClass("blogPostContent__meta")
SelHeadings == SelTags({"h1", "h2", "h3", "h4", "h5", "h6"})

\* lines 222-235 and 478-490
PruneSelectors(v) ==
    << SelTag("header"), SelTag("navbarmobile"), SelClass("blogSearchIcon__container"),
       SelTag("script"), SelTag("noscript"), SelClass("Footer"),
       SelClass("blogSearch__overlay"), SelClass("blogPostBanner__extra"),
       SelClass("blogSocial") >>
    \o (IF v = 1 THEN <<SelToc>> ELSE <<>>)
    \o << SelClass("blogPostContentSubscribe"), SelClass("blogPostAuthor") >>

\* lines 255-258 and 511-514
MetaTextSelectors == << SelMetaBottom, SelMetaTop >>

\* cleanupHeadings
RECURSIVE cleanupHeadings_each(_, _)
cleanupHeadings_each(ns, hs) ==
    IF Computed(ns) /\ hs = <<>> THEN ns
    ELSE cleanupHeadings_each(SetInnerHTML(ns, Head(hs), TextContent(ns, Head(hs))), Tail(hs))

cleanupHeadings(ns, m) == cleanupHeadings_each(ns, QuerySelectorAll(ns, m, SelHeadings))

\* lines 194 and 441
createRelatedPostsBlock_related(ns, m) == QuerySelectorAll(ns, Document, SelRelated)

RECURSIVE createRelatedPostsBlock_each(_, _)
createRelatedPostsBlock_each(ns, rs) ==
    IF Computed(ns) /\ rs = <<>> THEN ns
    ELSE createRelatedPostsBlock_each(
             SetInnerHTML(ns, Head(rs), Reflected(ns[Head(rs)], "href")), Tail(rs))

\* createRelatedPostsBlock: a NodeList is an object, so the test of line 195 passes
\* whatever it holds
createRelatedPostsBlock(ns, m) ==
    LET related == createRelatedPostsBlock_related(ns, m)
        n1 == createRelatedPostsBlock_each(ns, related)
        cells == << <<StrCell(<<"Related Posts">>)>> >> \o
                 [i \in 1..Len(related) |-> <<ElCell(related[i])>>]
        t == createTable(n1, cells)
    IN AppendChild(t.ns, m, t.id)

Https == <<"h", "t", "t", "p", "s", ":">>

\* the src used as it is, protocol-relative or not
createEmbeds_src_asIs(node) == Reflected(node, "src")

\* lines 143-144: a missing src is null, here the empty string, as falsy as null
createEmbeds_src(node) ==
    LET src == Reflected(node, "src")
    IN IF HasAttr(node, "src") /\ src # <<>> /\ StartsWith(src, <<"/", "/">>)
       THEN Https \o src
       ELSE src

\* line 148
EmbedLink(src) == <<"<a href=\"">> \o src \o <<"\">">> \o src \o <<"</a>">>

RECURSIVE createEmbeds_each(_, _)
createEmbeds_each(ns, embeds) ==
    IF Computed(ns) /\ embeds = <<>> THEN ns
    ELSE LET src == createEmbeds_src(ns[Head(embeds)])
             t == createTable(ns, << <<StrCell(<<"Embed">>)>>, <<StrCell(EmbedLink(src))>> >>)
         IN createEmbeds_each(
                IF src # <<>> THEN ReplaceWith(t.ns, Head(embeds), t.id) ELSE ns,
                Tail(embeds))

createEmbeds(ns, m) == createEmbeds_each(ns, QuerySelectorAll(ns, m, SelTag("iframe")))

ClsRight == "blogPostContent__ctaContainer--right"
ClsLeft == "blogPostContent__ctaContainer--left"

\* two independent tests: both suffixes when both classes are there
createCallouts_blockName_twoIfs(cls) ==
    <<"Callout">> \o (IF ClsRight \in cls THEN <<" (right)">> ELSE <<>>)
                  \o (IF ClsLeft \in cls THEN <<" (left)">> ELSE <<>>)

\* lines 157-163
createCallouts_blockName(cls) ==
    IF ClsRight \in cls THEN <<"Callout">> \o <<" (right)">>
    ELSE IF ClsLeft \in cls THEN <<"Callout">> \o <<" (left)">>
    ELSE <<"Callout">>

\* lines 156-189: one callout
createCallouts_one(ns, callout) ==
    LET blockName == createCallouts_blockName(ns[callout].cls)
        n1 == CreateElement(ns, "div")
        container == Len(n1)
        firstText == QuerySelector(n1, callout, SelClass("blogPostContent__ctaText"))
        n2 == IF firstText # Null
              THEN LET a1 == CreateElement(n1, "h3")
                       h == Len(a1)
                   IN AppendChild(SetInnerHTML(a1, h, TextContent(a1, firstText)), container, h)
              ELSE n1
        sub == QuerySelector(n2, callout, SelClass("blogPostContent__ctaSubheading"))
        n3 == IF sub # Null
              THEN LET b1 == CreateElement(n2, "p")
                       q == Len(b1)
                   IN AppendChild(SetInnerHTML(b1, q, InnerHTML(b1, sub)), container, q)
              ELSE n2
        cta == QuerySelector(n3, callout, SelTag("a"))
        rows == << <<StrCell(blockName)>>, <<ElCell(container)>> >>
                \o (IF cta # Null THEN << <<ElCell(cta)>> >> ELSE <<>>)
        t == createTable(n3, rows)
    IN ReplaceWith(t.ns, callout, t.id)

RECURSIVE createCallouts_each(_, _)
createCallouts_each(ns, callouts) ==
    IF Computed(ns) /\ callouts = <<>> THEN ns
    ELSE createCallouts_each(createCallouts_one(ns, Head(callouts)), Tail(callouts))

createCallouts(ns, m) == createCallouts_each(ns, QuerySelectorAll(ns, m, SelCallout))

\* createTOC (variant 2)
createTOC(ns, m) ==
    LET toc == QuerySelector(ns, m, SelToc)
        t == createTable(ns, << <<StrCell(<<"TOC">>)>> >>)
    IN IF toc # Null THEN ReplaceWith(t.ns, toc, t.id) ELSE ns

\* what html.toString().match(...) and JSON.parse make of the raw response body:
\* no structured-data script; one whose content JSON.parse rejects; one that parses
\* to an object with no '@graph' (graphLen -1) or a '@graph' of graphLen entries,
\* whose entry 2 has no image, an image without url, or an image with a url
Yoast(match, valid, graphLen, image) ==
    [match |-> match, valid |-> valid, graphLen |-> graphLen, image |-> image]

NoScript == Yoast(FALSE, FALSE, -1, "none")
InvalidScript == Yoast(TRUE, FALSE, -1, "none")

CardUrl == <<"c">>

\* the structured-data part with no try around it: a failure leaves createMetadata
createMetadata_cardImage_noCatch(h) ==
    IF ~h.match THEN "none"
    ELSE IF ~h.valid THEN "thrown"
    ELSE IF h.graphLen > 1
         THEN (IF h.graphLen < 3 THEN "thrown"
               ELSE IF h.image = "url" THEN "url" ELSE "none")
         ELSE "none"

\* lines 360-373: "url" when a Card Image is set, "warned" when the catch clause
\* ran (JSON.parse threw, or entry 2 of a two-entry '@graph' is undefined and
\* reading its image threw), "none" otherwise
createMetadata_cardImage(h) ==
    IF ~h.match THEN "none"
    ELSE IF ~h.valid THEN "warned"
    ELSE IF h.graphLen > 1
         THEN (IF h.graphLen < 3 THEN "warned"
               ELSE IF h.image = "url" THEN "url" ELSE "none")
         ELSE "none"

\* lines 111 and 336
createMetadata_date(content) == Substring(content, 0, IndexOf(content, "T"))

\* lines 119-126 and 344-351: the Read Time entry, if any
createMetadata_readTime(ns, m) ==
    LET metatop == QuerySelector(ns, m, SelMetaTop)
        split == Split(Trim(TextContent(ns, metatop)), "\n")
    IN IF metatop # Null /\ Len(split) = 3
       THEN <<MetaStr("Read Time", Trim(split[3]))>>
       ELSE <<>>

\* createMetadata(main, document[, html]): the document afterwards, the Metadata
\* Map, the warnings logged, and whether an exception left the function
createMetadata(ns, m, v, h) ==
    LET titleEl == QuerySelector(ns, Document, SelTag("title"))
        desc == QuerySelector(ns, Document, SelAttr("property", "og:description"))
        category == QuerySelector(ns, Document, SelAttr("property", "article:section"))
        date == QuerySelector(ns, Document, SelAttr("property", "article:published_time"))
        author == QuerySelector(ns, m, SelAttr("rel", "author"))
        img == QuerySelector(ns, Document, SelAttr("property", "og:image"))
        m1 == IF titleEl # Null
              THEN <<MetaStr("Title", SelectSeq(InnerHTML(ns, titleEl), LAMBDA c : c \notin {"\n", "\t"}))>>
              ELSE <<>>
        m2 == IF desc # Null THEN <<MetaStr("Description", Reflected(ns[desc], "content"))>> ELSE <<>>
        m3 == IF category # Null THEN <<MetaStr("Category", Reflected(ns[category], "content"))>> ELSE <<>>
        m4 == IF date # Null
              THEN <<MetaStr("Publication Date", createMetadata_date(Reflected(ns[date], "content")))>>
              ELSE <<>>
        m5 == IF author # Null THEN <<MetaEl("Author", author)>> ELSE <<>>
        m6 == createMetadata_readTime(ns, m)
        n1 == IF img # Null
              THEN [CreateElement(ns, "img") EXCEPT ![Len(ns) + 1].attrs =
                        ("src" :> Reflected(ns[img], "content"))]
              ELSE ns
        m7 == IF img # Null THEN <<MetaEl("Image", Len(n1))>> ELSE <<>>
        card == IF v = 2 THEN createMetadata_cardImage(h) ELSE "none"
        n2 == IF card = "url"
              THEN [CreateElement(n1, "img") EXCEPT ![Len(n1) + 1].attrs = ("src" :> CardUrl)]
              ELSE n1
        m8 == IF card = "url" THEN <<MetaEl("Card Image", Len(n2))>> ELSE <<>>
        all == m1 \o m2 \o m3 \o m4 \o m5 \o m6 \o m7 \o m8
        block == Blocks_getMetadataBlock(n2, all)
    IN IF card = "thrown"
       THEN [ns |-> n1, meta |-> <<>>, warned |-> 0, thrown |-> TRUE]
       ELSE [ns |-> AppendChild(block.ns, m, block.id), meta |-> all,
             warned |-> (IF card = "warned" THEN 1 ELSE 0), thrown |-> FALSE]

\* path.parse(pathname): dir is what precedes the last '/', name the rest without
\* its extension (from the last '.', unless the rest starts with it)
LastIndexOf(chars, c) ==
    IF \E i \in 1..Len(chars) : chars[i] = c
    THEN (CHOOSE i \in 1..Len(chars) : chars[i] = c /\ \A j \in (i + 1)..Len(chars) : chars[j] # c) - 1
    ELSE -1

PathParse(pathname) ==
    LET slash == LastIndexOf(pathname, "/")
        base == Substring(pathname, slash + 1, Len(pathname))
        dot == LastIndexOf(base, ".")
    IN [dir |-> IF slash <= 0 THEN Substring(pathname, 0, slash + 1) ELSE Substring(pathname, 0, slash),
        name |-> IF dot > 0 THEN Substring(base, 0, dot) ELSE base]

\* lines 262-265 and 518-521: the segments of dir from the fourth on, behind 'blog'
SubPath(dir) ==
    LET seg == Split(dir, "/")
        kept == SelectSeq([i \in 1..Len(seg) |-> <<i - 1, seg[i]>>], LAMBDA e : e[1] > 2)
    IN <<"b", "l", "o", "g">> \o Join([i \in 1..Len(kept) |-> kept[i][2]], "/")

\* the raw meta-text elements removed before the metadata is built
process_steps_removeFirst(v) ==
    <<"prune", "headings", "hero", "related", "embeds", "callouts">>
    \o (IF v = 2 THEN <<"toc">> ELSE <<>>)
    \o <<"removeMeta", "metadata", "name", "emit">>

\* the steps of process in the order of the code, build TOC in variant 2 only
process_steps(v) ==
    <<"prune", "headings", "hero", "related", "embeds", "callouts">>
    \o (IF v = 2 THEN <<"toc">> ELSE <<>>)
    \o <<"metadata", "removeMeta", "name", "emit">>

\* the statement after step in process, "done" after the last
process_next(step, v) ==
    LET steps == process_steps(v)
        k == IndexIn(steps, step)
    IN IF k = Len(steps) THEN "done" ELSE steps[k + 1]

(***************************************************************************)
(* The documents process is run on                                         *)
(***************************************************************************)
\* a document is written as a list of items, each a node under a key with the key
\* of its parent; a node's children are the items naming it, in list order
Item(key, parent, node) == [key |-> key, parent |-> parent, node |-> node]

BuildDocument(items) ==
    [i \in 1..Len(items) |->
        [items[i].node EXCEPT !.kids =
            SelectSeq([j \in 1..Len(items) |-> j], LAMBDA j : items[j].parent = items[i].key)]]

MaxIframes == 2

IframeKeys == <<"iframe1", "iframe2", "iframe3", "iframe4">>

\* an iframe with no src, an empty src, a protocol-relative src, an absolute src
IframeKinds == {"missing", "empty", "relative", "absolute"}

IframeAttrs(kind) ==
    CASE kind = "missing" -> NoAttrs
      [] kind = "empty" -> ("src" :> <<>>)
      [] kind = "relative" -> ("src" :> <<"/", "/", "e", "/", "v">>)
      [] kind = "absolute" -> ("src" :> <<"h", ":", "/", "/", "e">>)

HeadItems(sh) ==
    << Item("document", "", El("#document", {}, NoAttrs)),
       Item("head", "document", El("head", {}, NoAttrs)) >>
    \o (CASE sh.title = "none" -> <<>>
          [] sh.title = "text" -> << Item("title", "head", El("title", {}, NoAttrs)),
                                     Item("title.t", "title", Txt(<<"\n", "T", "\t">>)) >>
          [] sh.title = "blank" -> << Item("title", "head", El("title", {}, NoAttrs)),
                                      Item("title.t", "title", Txt(<<"\n">>)) >>)
    \o (CASE sh.desc = "none" -> <<>>
          [] sh.desc = "content" ->
               << Item("desc", "head", El("meta", {},
                      ("property" :> "og:description") @@ ("content" :> <<"d">>))) >>
          [] sh.desc = "nocontent" ->
               << Item("desc", "head", El("meta", {}, ("property" :> "og:description"))) >>)
    \o (IF sh.category
        THEN << Item("category", "head", El("meta", {},
                    ("property" :> "article:section") @@ ("content" :> <<"c">>))) >>
        ELSE <<>>)
    \o (CASE sh.date = "none" -> <<>>
          [] sh.date = "withT" ->
               << Item("date", "head", El("meta", {},
                      ("property" :> "article:published_time") @@ ("content" :> <<"2", "1", "T", "0">>))) >>
          [] sh.date = "noT" ->
               << Item("date", "head", El("meta", {},
                      ("property" :> "article:published_time") @@ ("content" :> <<"2", "1">>))) >>)
    \o (IF sh.image
        THEN << Item("image", "head", El("meta", {},
                    ("property" :> "og:image") @@ ("content" :> <<"i">>))) >>
        ELSE <<>>)
    \o << Item("script", "head", El("script", {}, NoAttrs)) >>

MetaTopItems(sh) ==
    CASE sh.metaTop = "none" -> <<>>
      [] sh.metaTop = "three" ->
           << Item("metaTop", "main", El("div", {"blogPostContent__metaTop"}, NoAttrs)),
              Item("metaTop.1", "metaTop", Txt(<<"\n", "D", "\n">>)),
              Item("author", "metaTop", El("a", {}, ("rel" :> "author"))),
              Item("author.t", "author", Txt(<<"A">>)),
              Item("metaTop.2", "metaTop", Txt(<<"\n", " ", "5", "\n">>)) >>
      [] sh.metaTop = "threeNoAuthor" ->
           << Item("metaTop", "main", El("div", {"blogPostContent__metaTop"}, NoAttrs)),
              Item("metaTop.1", "metaTop", Txt(<<" ", "D", "\n", "A", "\n", "5", " ", "\n">>)) >>
      [] sh.metaTop = "two" ->
           << Item("metaTop", "main", El("div", {"blogPostContent__metaTop"}, NoAttrs)),
              Item("metaTop.1", "metaTop", Txt(<<"\n", "D", "\n", "5", "\n">>)) >>

CalloutItems(sh) ==
    LET mods == CASE sh.callout = "plain" -> {}
                  [] sh.callout = "right" -> {ClsRight}
                  [] sh.callout = "left" -> {ClsLeft}
                  [] sh.callout = "both" -> {ClsRight, ClsLeft}
                  [] OTHER -> {}
    IN IF sh.callout = "none" THEN <<>>
       ELSE << Item("callout", "content",
                    El("div", {"blogPostContent__ctaContainer"} \cup mods, NoAttrs)) >>
            \o (IF sh.callout = "plain" THEN <<>>
                ELSE << Item("ctaText", "callout", El("span", {"blogPostContent__ctaText"}, NoAttrs)),
                        Item("ctaText.b", "ctaText", El("b", {}, NoAttrs)),
                        Item("ctaText.t", "ctaText.b", Txt(<<"C">>)),
                        Item("sub", "callout", El("p", {"blogPostContent__ctaSubheading"}, NoAttrs)),
                        Item("sub.i", "sub", El("i", {}, NoAttrs)),
                        Item("sub.t", "sub.i", Txt(<<"S">>)),
                        Item("cta", "callout", El("a", {}, ("href" :> <<"/", "g">>))),
                        Item("cta.t", "cta", Txt(<<"G">>)) >>)

BodyItems(sh) ==
    << Item("body", "document", El("body", {}, NoAttrs)),
       Item("header", "body", El("header", {}, NoAttrs)),
       Item("header.a", "header", El("a", {}, ("href" :> <<"/">>))),
       Item("banner", "body", El("div", {"blogPostBanner"}, NoAttrs)) >>
    \o (CASE sh.hero = "none" -> <<>>
          [] sh.hero = "single" ->
               << Item("hero", "banner", El("div", {"blogPostBanner__img"},
                      (BackgroundImage :> <<"u", "r", "l", "(", "'", "x", "'", ")">>))) >>
          [] sh.hero = "plain" ->
               << Item("hero", "banner", El("div", {"blogPostBanner__img"}, NoAttrs)) >>)
    \o << Item("extra", "banner", El("div", {"blogPostBanner__extra"}, NoAttrs)),
          Item("main", "body", El("div", IF sh.main THEN {"blogPostMain"} ELSE {}, NoAttrs)),
          Item("h1", "main", El("h1", {}, NoAttrs)),
          Item("h1.t", "h1", Txt(<<"P">>)),
          Item("h1.em", "h1", El("em", {}, NoAttrs)),
          Item("h1.em.t", "h1.em", Txt(<<"Q">>)) >>
    \o MetaTopItems(sh)
    \o << Item("content", "main", El("div", {"blogPostContent"}, NoAttrs)) >>
    \o [k \in 1..Len(sh.iframes) |->
           Item(IframeKeys[k], "content", El("iframe", {}, IframeAttrs(sh.iframes[k])))]
    \o CalloutItems(sh)
    \o (IF sh.toc
        THEN << Item("toc", "content", El("div", {"blogPostContentToc"}, NoAttrs)) >>
        ELSE <<>>)
    \o (IF sh.related \in {"inside", "both"}
        THEN << Item("relIn", "content",
                    El("a", {"blogPostsBlock__titleLink"}, ("href" :> <<"/", "i">>))),
                Item("relIn.t", "relIn", Txt(<<"I">>)) >>
        ELSE <<>>)
    \o << Item("metaBottom", "main", El("div", {"blogPostContent__meta"}, NoAttrs)),
          Item("posts", "body", El("div", {"blogPostsBlock"}, NoAttrs)) >>
    \o (IF sh.related \in {"outside", "both"}
        THEN << Item("relOut", "posts",
                    El("a", {"blogPostsBlock__titleLink"}, ("href" :> <<"/", "o">>))),
                Item("relOut.t", "relOut", Txt(<<"O">>)) >>
        ELSE <<>>)
    \o << Item("footer", "body", El("div", {"Footer"}, NoAttrs)) >>

ShapeDocument(sh) == BuildDocument(HeadItems(sh) \o BodyItems(sh))

DefaultShape ==
    [title |-> "text", desc |-> "content", category |-> TRUE, date |-> "withT",
     image |-> TRUE, metaTop |-> "three", iframes |-> <<"relative">>, callout |-> "right",
     toc |-> TRUE, related |-> "outside", hero |-> "single", main |-> TRUE]

\* the sources of the metadata varied, the body fixed
HeadShapes ==
    {[DefaultShape EXCEPT !.title = h[1], !.desc = h[2], !.date = h[3], !.metaTop = h[4]] :
        h \in {"none", "text", "blank"} \X {"none", "content", "nocontent"}
              \X {"none", "withT", "noT"} \X {"none", "three", "threeNoAuthor", "two"}}
    \cup
    {[DefaultShape EXCEPT !.title = h[1], !.category = h[2], !.image = h[3], !.metaTop = h[4]] :
        h \in {"none", "text"} \X BOOLEAN \X BOOLEAN \X {"none", "three", "two"}}

\* the body varied, the sources of the metadata fixed
BodyShapes ==
    {[DefaultShape EXCEPT !.iframes = b[1], !.toc = b[2]] :
        b \in SeqsUpTo(IframeKinds, MaxIframes) \X BOOLEAN}
    \cup
    {[DefaultShape EXCEPT !.callout = b[1], !.toc = b[2], !.related = b[3], !.hero = b[4]] :
        b \in {"none", "plain", "right", "left", "both"} \X BOOLEAN
              \X {"none", "outside", "inside", "both"} \X {"none", "single", "plain"}}

\* a document with no main-content region
NoMainShape == [DefaultShape EXCEPT !.main = FALSE]

\* the documents the structured-data script is varied on
ScriptShapes ==
    {[DefaultShape EXCEPT !.title = h[1], !.image = h[2], !.metaTop = h[3]] :
        h \in {"none", "text"} \X BOOLEAN \X {"none", "three"}}

Htmls ==
    { NoScript, InvalidScript, Yoast(TRUE, TRUE, -1, "none"), Yoast(TRUE, TRUE, 2, "none"),
      Yoast(TRUE, TRUE, 3, "none"), Yoast(TRUE, TRUE, 3, "nourl"), Yoast(TRUE, TRUE, 3, "url") }

DefaultPath == <<"/", "a", "/", "b", "/", "c", "/", "d", "/", "-", "p", "-", ".", "h">>

PathNames ==
    { DefaultPath,
      <<"/", "a", "/", "b", "/", "c", "/", "d", "/", "e", "/", "p", "_">>,
      <<"/", "a", "/", "_">>,
      <<"/", "p">> }

\* what process is given: the document, the raw body, the pathname of the URL
Inputs ==
    {[shape |-> sh, html |-> NoScript, path |-> DefaultPath] :
        sh \in HeadShapes \cup BodyShapes \cup {NoMainShape}}
    \cup {[shape |-> sh, html |-> h, path |-> DefaultPath] : sh \in ScriptShapes, h \in Htmls}
    \cup {[shape |-> DefaultShape, html |-> NoScript, path |-> q] : q \in PathNames}

(***************************************************************************)
(* process                                                                 *)
(***************************************************************************)
Init ==
    /\ pc = "prune"
    /\ variant \in {1, 2}
    /\ arg \in Inputs
    /\ variant = 1 => arg.html = NoScript
    /\ html = arg.html
    /\ nodes = ShapeDocument(arg.shape)
    /\ main = Null /\ title = Null /\ hero = Null
    /\ meta = <<>> /\ warnings = 0 /\ out = <<>> /\ trace = <<>>
    /\ ret = [name |-> <<>>, subPath |-> <<>>]

Advance(step) ==
    /\ pc' = process_next(step, variant)
    /\ trace' = Append(trace, step)

\* lines 222-235 and 478-490
Prune ==
    /\ pc = "prune"
    /\ nodes' = DOMUtils_remove(nodes, PruneSelectors(variant))
    /\ Advance("prune")
    /\ UNCHANGED <<variant, main, title, hero, meta, html, warnings, out, arg, ret>>

\* lines 237-239 and 492-494: without a main-content region cleanupHeadings throws
Headings ==
    /\ pc = "headings"
    /\ main' = QuerySelector(nodes, Document, SelMain)
    /\ IF main' = Null
       THEN pc' = "threw" /\ UNCHANGED <<nodes, trace>>
       ELSE nodes' = cleanupHeadings(nodes, main') /\ Advance("headings")
    /\ UNCHANGED <<variant, title, hero, meta, html, warnings, out, arg, ret>>

\* lines 241-247 and 496-502
Hero ==
    /\ pc = "hero"
    /\ title' = QuerySelector(nodes, Document, SelTag("h1"))
    /\ LET found == QuerySelector(nodes, Document, SelHero)
           r == replaceBackgroundByImg(nodes, found)
       IN IF found # Null
          THEN /\ hero' = r.id
               /\ nodes' = IF title' # Null THEN Before(r.ns, r.id, title') ELSE r.ns
          ELSE hero' = Null /\ nodes' = nodes
    /\ Advance("hero")
    /\ UNCHANGED <<variant, main, meta, html, warnings, out, arg, ret>>

\* lines 249 and 504
Related ==
    /\ pc = "related"
    /\ nodes' = createRelatedPostsBlock(nodes, main)
    /\ Advance("related")
    /\ UNCHANGED <<variant, main, title, hero, meta, html, warnings, out, arg, ret>>

\* lines 250 and 505
Embeds ==
    /\ pc = "embeds"
    /\ nodes' = createEmbeds(nodes, main)
    /\ Advance("embeds")
    /\ UNCHANGED <<variant, main, title, hero, meta, html, warnings, out, arg, ret>>

\* lines 251 and 506
Callouts ==
    /\ pc = "callouts"
    /\ nodes' = createCallouts(nodes, main)
    /\ Advance("callouts")
    /\ UNCHANGED <<variant, main, title, hero, meta, html, warnings, out, arg, ret>>

\* line 507
Toc ==
    /\ pc = "toc"
    /\ nodes' = createTOC(nodes, main)
    /\ Advance("toc")
    /\ UNCHANGED <<variant, main, title, hero, meta, html, warnings, out, arg, ret>>

\* lines 253 and 509
Metadata ==
    /\ pc = "metadata"
    /\ LET r == createMetadata(nodes, main, variant, html)
       IN IF r.thrown
          THEN pc' = "threw" /\ UNCHANGED <<nodes, meta, warnings, trace>>
          ELSE /\ nodes' = r.ns
               /\ meta' = r.meta
               /\ warnings' = warnings + r.warned
               /\ Advance("metadata")
    /\ UNCHANGED <<variant, main, title, hero, html, out, arg, ret>>

\* lines 255-258 and 511-514
RemoveMeta ==
    /\ pc = "removeMeta"
    /\ nodes' = DOMUtils_remove(nodes, MetaTextSelectors)
    /\ Advance("removeMeta")
    /\ UNCHANGED <<variant, main, title, hero, meta, html, warnings, out, arg, ret>>

\* lines 260-265 and 516-521
Name ==
    /\ pc = "name"
    /\ LET parsed == PathParse(arg.path)
       IN ret' = [name |-> cleanupName(parsed.name), subPath |-> SubPath(parsed.dir)]
    /\ Advance("name")
    /\ UNCHANGED <<variant, nodes, main, title, hero, meta, html, warnings, out, arg>>

\* lines 267-271 and 523-527
Emit ==
    /\ pc = "emit"
    /\ out' = << [name |-> ret.name, subPath |-> ret.subPath, main |-> main, meta |-> meta] >>
    /\ Advance("emit")
    /\ UNCHANGED <<variant, nodes, main, title, hero, meta, html, warnings, arg, ret>>

Next ==
    \/ Prune
    \/ Headings
    \/ Hero
    \/ Related
    \/ Embeds
    \/ Callouts
    \/ Toc
    \/ Metadata
    \/ RemoveMeta
    \/ Name
    \/ Emit

Spec == Init /\ [][Next]_vars

(***************************************************************************)
(* Properties of process                                                   *)
(***************************************************************************)
\* t is a block named name: a table whose first row is one header cell holding name
IsBlock(ns, t, name) ==
    /\ ns[t].kind = "elem" /\ ns[t].tag = "table" /\ Len(ns[t].kids) >= 1
    /\ LET row == ns[ns[t].kids[1]]
       IN /\ row.tag = "tr" /\ Len(row.kids) = 1
          /\ ns[row.kids[1]].tag = "th"
          /\ Len(ns[row.kids[1]].kids) = 1
          /\ ns[ns[row.kids[1]].kids[1]] = Markup(name)

\* the content of the only cell of row i of table t
OnlyCell(ns, t, i) == ns[ns[ns[t].kids[i]].kids[1]]

InDocument(ns, n) == Contains(ns, Document, n)

ElementsIn(ns, root) == {n \in 1..Len(ns) : ns[n].kind = "elem" /\ Contains(ns, root, n)}

Performed(step) == InSeq(step, trace)

MetaValueSet(e) == IF e.kind = "str" THEN e.str # <<>> ELSE e.el # Null

\* the shape of the document has the source of the field
HasSource(sh, key) ==
    CASE key = "Title" -> sh.title # "none"
      [] key = "Description" -> sh.desc # "none"
      [] key = "Category" -> sh.category
      [] key = "Publication Date" -> sh.date # "none"
      [] key = "Author" -> sh.metaTop = "three"
      [] key = "Read Time" -> sh.metaTop # "none"
      [] key = "Image" -> sh.image
      [] key = "Card Image" -> html.match
      [] OTHER -> FALSE

\* C1: the Metadata Map holds a field only when its source exists, and no field it
\* holds is null, undefined or the empty string (a published time without 'T' and a
\* meta tag without content included); with an og:description and no title it has
\* Description and no Title.
C1_NoEmptyFields ==
    Performed("metadata") =>
        /\ \A i \in 1..Len(meta) : HasSource(arg.shape, meta[i].key) /\ MetaValueSet(meta[i])
        /\ (arg.shape.desc # "none" /\ arg.shape.title = "none") =>
               ("Description" \in MetaKeys(meta) /\ "Title" \notin MetaKeys(meta))

\* what the Embed block of an iframe with this src links to
C5_Link(src) ==
    LET e == IF Len(src) >= 2 /\ src[1] = "/" /\ src[2] = "/"
             THEN <<"h", "t", "t", "p", "s", ":">> \o src ELSE src
    IN <<"<a href=\"">> \o e \o <<"\">">> \o e \o <<"</a>">>

C5_EmbedsReplaced_Step ==
    pc = "embeds" =>
        \A f \in {n \in ElementsIn(nodes, main) : nodes[n].tag = "iframe"} :
            LET p == ParentOf(nodes, f)
                k == IndexIn(nodes[p].kids, f)
                t == nodes'[p].kids[k]
            IN /\ Len(nodes'[p].kids) = Len(nodes[p].kids)
               /\ IF HasAttr(nodes[f], "src") /\ nodes[f].attrs["src"] # <<>>
                  THEN /\ t > Len(nodes)
                       /\ ~InDocument(nodes', f)
                       /\ IsBlock(nodes', t, <<"Embed">>)
                       /\ Len(nodes'[t].kids) = 2
                       /\ Len(nodes'[nodes'[t].kids[2]].kids) = 1
                       /\ OnlyCell(nodes', t, 2).tag = "td"
                       /\ Len(OnlyCell(nodes', t, 2).kids) = 1
                       /\ nodes'[OnlyCell(nodes', t, 2).kids[1]]
                              = Markup(C5_Link(nodes[f].attrs["src"]))
                  ELSE t = f /\ nodes'[f] = nodes[f]

\* C5: createEmbeds replaces every iframe of the main-content region that has a
\* non-empty src, where it stands, by a block of two rows: the header Embed and one
\* cell holding a link whose href and text are the src, "https:" put before a src
\* starting with "//"; an iframe with a missing or empty src stays where it is,
\* unchanged.
C5_EmbedsReplaced == [][C5_EmbedsReplaced_Step]_vars

\* after createEmbeds: a block linking to https://e/v where the iframe with src
\* //e/v stood, beside an iframe without src that is still there
C5_Witness ==
    /\ Len(trace) > 0 /\ trace[Len(trace)] = "embeds"
    /\ \E t \in ElementsIn(nodes, main) :
         /\ IsBlock(nodes, t, <<"Embed">>)
         /\ nodes[OnlyCell(nodes, t, 2).kids[1]].text
              = C5_Link(<<"/", "/", "e", "/", "v">>)
         /\ nodes[OnlyCell(nodes, t, 2).kids[1]].text[2] = "h"
    /\ \E f \in ElementsIn(nodes, main) :
         nodes[f].tag = "iframe" /\ ~HasAttr(nodes[f], "src")

CalloutsIn(ns, m) ==
    {n \in ElementsIn(ns, m) : "blogPostContent__ctaContainer" \in ns[n].cls}

\* the block standing in nodes' where callout c stood
C6_BlockOf(c) == nodes'[ParentOf(nodes, c)].kids[IndexIn(nodes[ParentOf(nodes, c)].kids, c)]

C6_NameByClass_Step ==
    pc = "callouts" =>
        \A c \in CalloutsIn(nodes, main) :
            LET t == C6_BlockOf(c)
                name == OnlyCell(nodes', t, 1).kids[1]
            IN /\ t > Len(nodes)
               /\ nodes'[t].tag = "table"
               /\ ClsRight \in nodes[c].cls => IsBlock(nodes', t, <<"Callout", " (right)">>)
               /\ ClsLeft \in nodes[c].cls => IsBlock(nodes', t, <<"Callout", " (left)">>)
               /\ (ClsRight \notin nodes[c].cls /\ ClsLeft \notin nodes[c].cls)
                      => IsBlock(nodes', t, <<"Callout">>)
               /\ nodes'[name].text \in
                      {<<"Callout">>, <<"Callout", " (right)">>, <<"Callout", " (left)">>}

\* C6 as stated: the block replacing a callout container is named "Callout (right)"
\* if the container carries the right modifier class, "Callout (left)" if it carries
\* the left modifier class, "Callout" if it carries neither, and always one of the three.
C6_NameByClass == [][C6_NameByClass_Step]_vars

C6_NameByClassRightFirst_Step ==
    pc = "callouts" =>
        \A c \in CalloutsIn(nodes, main) :
            LET t == C6_BlockOf(c)
            IN /\ t > Len(nodes)
               /\ ~InDocument(nodes', c)
               /\ IsBlock(nodes', t,
                     IF ClsRight \in nodes[c].cls THEN <<"Callout", " (right)">>
                     ELSE IF ClsLeft \in nodes[c].cls THEN <<"Callout", " (left)">>
                     ELSE <<"Callout">>)

\* C6, amended: the block replacing a callout container is named "Callout (right)"
\* if the container carries the right modifier class, "Callout (left)" if it carries
\* the left modifier class and not the right one, "Callout" if it carries neither.
C6_NameByClassRightFirst == [][C6_NameByClassRightFirst_Step]_vars

\* after createCallouts on a container carrying both modifier classes
C6_Witness ==
    /\ Len(trace) > 0 /\ trace[Len(trace)] = "callouts"
    /\ arg.shape.callout = "both"
    /\ \E t \in ElementsIn(nodes, main) : IsBlock(nodes, t, <<"Callout", " (right)">>)

NoMatch(ns, root, sel) == QuerySelectorAll(ns, root, sel) = <<>>

C7_NoMatchNoMutation_Step ==
    /\ (pc = "related" /\ NoMatch(nodes, Document, SelRelated)) => nodes' = nodes
    /\ (pc = "embeds" /\ NoMatch(nodes, main, SelTag("iframe"))) => nodes' = nodes
    /\ (pc = "callouts" /\ NoMatch(nodes, main, SelCallout)) => nodes' = nodes
    /\ (pc = "toc" /\ NoMatch(nodes, main, SelToc)) => nodes' = nodes

\* C7: a block-building step that finds no element matching the selector it scans
\* for leaves the document as it is.
C7_NoMatchNoMutation == [][C7_NoMatchNoMutation_Step]_vars

C8_ConfinedToMain_Step ==
    pc \in {"related", "embeds", "callouts", "toc"} =>
        \A n \in ElementsIn(nodes, Document) :
            (n # main /\ ~Contains(nodes, main, n)) =>
                /\ nodes'[n] = nodes[n]
                /\ ParentOf(nodes', n) = ParentOf(nodes, n)
                /\ ~Contains(nodes', main, n)

\* C8: the block-building steps of process work inside the main-content region
\* only: an element outside it is neither rewritten nor moved by them.
C8_ConfinedToMain == [][C8_ConfinedToMain_Step]_vars

\* the last child of the main-content region
LastChild(ns, m) == ns[m].kids[Len(ns[m].kids)]

C9_MetadataStep ==
    (variant = 2 /\ html = InvalidScript /\ pc = "metadata") =>
            /\ pc' = "removeMeta"
            /\ "Card Image" \notin MetaKeys(meta')
            /\ meta' = createMetadata(nodes, main, 2, NoScript).meta
            /\ Len(nodes'[main].kids) = Len(nodes[main].kids) + 1
            /\ LastChild(nodes', main) > Len(nodes)
            /\ IsBlock(nodes', LastChild(nodes', main), <<"Metadata">>)

\* C9: in variant 2, when the structured-data script does not parse, createMetadata
\* logs one warning and returns a map without Card Image whose other fields are what
\* they are without the script, the metadata block is appended to the main-content
\* region all the same, and process goes on to emit its resource: nothing is thrown.
C9_ParseFailureTolerated ==
    /\ [](variant = 2 /\ html = InvalidScript =>
            /\ pc # "threw"
            /\ warnings = (IF Performed("metadata") THEN 1 ELSE 0)
            /\ pc = "done" => /\ Len(out) = 1
                              /\ out[1].meta = meta
                              /\ "Card Image" \notin MetaKeys(meta))
    /\ [][C9_MetadataStep]_vars

C9_Witness ==
    /\ pc = "done" /\ variant = 2 /\ html = InvalidScript
    /\ warnings = 1 /\ Len(out) = 1
    /\ "Title" \in MetaKeys(meta) /\ "Image" \in MetaKeys(meta)

\* C10: a run of process performs its steps once each in the order prune, headings,
\* hero, related posts, embeds, callouts, (variant 2) TOC, metadata, removal of the
\* raw meta-text elements, name and path, emit of one resource.  So at the end the
\* metadata block is the last child of the main-content region, the Related Posts
\* block the one before it, the meta-text element was still there for the Read Time
\* to be read from it, and no meta-text element is left in the document.
C10_StepsInOrder ==
    LET order == IF variant = 2
                 THEN <<"prune", "headings", "hero", "related", "embeds", "callouts", "toc",
                        "metadata", "removeMeta", "name", "emit">>
                 ELSE <<"prune", "headings", "hero", "related", "embeds", "callouts",
                        "metadata", "removeMeta", "name", "emit">>
        kids == nodes[main].kids
    IN /\ Len(trace) <= Len(order)
       /\ trace = SubSeq(order, 1, Len(trace))
       /\ pc \notin {"done", "threw"} => pc = order[Len(trace) + 1]
       /\ pc = "metadata" =>
            (arg.shape.metaTop # "none" =>
                \E n \in ElementsIn(nodes, main) : "blogPostContent__metaTop" \in nodes[n].cls)
       /\ pc = "done" =>
            /\ trace = order
            /\ Len(out) = 1
            /\ Len(kids) >= 2
            /\ IsBlock(nodes, kids[Len(kids)], <<"Metadata">>)
            /\ IsBlock(nodes, kids[Len(kids) - 1], <<"Related Posts">>)
            /\ \A n \in ElementsIn(nodes, Document) :
                 nodes[n].cls \cap {"blogPostContent__meta", "blogPostContent__metaTop"} = {}
            /\ arg.shape.metaTop \in {"three", "threeNoAuthor"} =>
                 /\ "Read Time" \in MetaKeys(meta)
                 /\ MetaEntry(meta, "Read Time").str = <<"5">>

C10_Witness ==
    /\ pc = "done" /\ variant = 2
    /\ arg.shape.metaTop = "three" /\ arg.shape.related = "both"
    /\ "Read Time" \in MetaKeys(meta)
    /\ IsBlock(nodes, LastChild(nodes, main), <<"Metadata">>)

(***************************************************************************)
(* DOM.replaceBackgroundByImg called directly                              *)
(***************************************************************************)
MaxUrlLen == 2

UrlAlphabet == {"x", "/", "."}

BgUrls == SeqsUpTo(UrlAlphabet, MaxUrlLen) \ {<<>>}

\* what tag.style['background-image'] holds for an image at u, by the form of the quotes
BgStyle(form, u) ==
    CASE form = "single" -> <<"u", "r", "l", "(", "'">> \o u \o <<"'", ")">>
      [] form = "double" -> <<"u", "r", "l", "(", "\"">> \o u \o <<"\"", ")">>
      [] form = "unquoted" -> <<"u", "r", "l", "(">> \o u \o <<")">>

BgForms == {"single", "double", "unquoted"}

\* a parent with the tag and a sibling in some order, or the tag with no parent
BgPlacements == {<<3, 4>>, <<4, 3>>, <<3>>, <<4>>}

BgDocument(kids, attrs) ==
    << [El("#document", {}, NoAttrs) EXCEPT !.kids = <<2>>],
       [El("div", {}, NoAttrs) EXCEPT !.kids = kids],
       El("div", {"blogPostBanner__img"}, attrs),
       El("p", {}, NoAttrs) >>

BgInit ==
    /\ pc = "call"
    /\ \E kids \in BgPlacements :
         \/ \E form \in BgForms, u \in BgUrls :
              /\ nodes = BgDocument(kids, (BackgroundImage :> BgStyle(form, u)))
              /\ arg = [tag |-> 3, form |-> form, url |-> u, before |-> nodes]
         \/ /\ nodes = BgDocument(kids, NoAttrs)
            /\ arg = [tag |-> 3, form |-> "none", url |-> <<>>, before |-> nodes]
    /\ ret = Null
    /\ variant = 1
    /\ main = Null /\ title = Null /\ hero = Null
    /\ meta = <<>> /\ html = "none" /\ warnings = 0 /\ out = <<>> /\ trace = <<>>

CallReplaceBackgroundByImg ==
    /\ pc = "call"
    /\ LET r == replaceBackgroundByImg(nodes, arg.tag)
       IN nodes' = r.ns /\ ret' = r.id
    /\ pc' = "returned"
    /\ UNCHANGED <<variant, main, title, hero, meta, html, warnings, out, trace, arg>>

BgNext == CallReplaceBackgroundByImg

SpecBg == BgInit /\ [][BgNext]_vars

\* C3: with a background-image style the result is a new img whose src is the URL
\* inside url(...), wrapper and quotes stripped (single-quoted, double-quoted and
\* unquoted), standing where tag stood, tag no longer a child of its former
\* parent; without one the result is tag itself and the tree is as before.
C3_ReplacesByImgOfUrl ==
    pc = "returned" =>
        LET p == ParentOf(arg.before, arg.tag)
        IN IF arg.form # "none"
           THEN /\ ret > Len(arg.before)
                /\ nodes[ret].kind = "elem" /\ nodes[ret].tag = "img"
                /\ nodes[ret].attrs["src"] = arg.url
                /\ p # Null =>
                     /\ ~InSeq(arg.tag, nodes[p].kids)
                     /\ Len(nodes[p].kids) = Len(arg.before[p].kids)
                     /\ nodes[p].kids[IndexIn(arg.before[p].kids, arg.tag)] = ret
           ELSE ret = arg.tag /\ nodes = arg.before

(***************************************************************************)
(* DOM.createTable called directly                                         *)
(***************************************************************************)
MaxRows == 2

MaxCells == 2

\* a cell is a string, an element of the document, or a list of two of them
TableCellKinds == {"str", "el", "list"}

\* the cell of a kind in row i: the string is H in the first row and a in the others
TableCell(kind, i) ==
    CASE kind = "str" -> StrCell(IF i = 1 THEN <<"H">> ELSE <<"a">>)
      [] kind = "el" -> ElCell(3)
      [] kind = "list" -> ListCell(<<4, 3>>)

TableData ==
    {[i \in 1..Len(sh) |-> [j \in 1..Len(sh[i]) |-> TableCell(sh[i][j], i)]] :
        sh \in SeqsUpTo(SeqsUpTo(TableCellKinds, MaxCells), MaxRows)}

TableDocument ==
    << [El("#document", {}, NoAttrs) EXCEPT !.kids = <<2>>],
       [El("div", {}, NoAttrs) EXCEPT !.kids = <<3, 4>>],
       El("a", {}, NoAttrs),
       El("p", {}, NoAttrs) >>

TableInit ==
    /\ pc = "call"
    /\ nodes = TableDocument
    /\ \E data \in TableData : arg = [data |-> data, before |-> nodes]
    /\ ret = Null
    /\ variant = 1
    /\ main = Null /\ title = Null /\ hero = Null
    /\ meta = <<>> /\ html = "none" /\ warnings = 0 /\ out = <<>> /\ trace = <<>>

CallCreateTable ==
    /\ pc = "call"
    /\ LET r == createTable(nodes, arg.data)
       IN nodes' = r.ns /\ ret' = r.id
    /\ pc' = "returned"
    /\ UNCHANGED <<variant, main, title, hero, meta, html, warnings, out, trace, arg>>

TableNext == CallCreateTable

SpecTable == TableInit /\ [][TableNext]_vars

\* the k-th element of cell (i, j) is appended again later, in this cell or a later one
AppendedLater(data, i, j, k) ==
    \E i2 \in 1..Len(data) : \E j2 \in 1..Len(data[i2]) : \E k2 \in 1..Len(data[i2][j2].l) :
        /\ data[i2][j2].l[k2] = data[i][j].l[k]
        /\ \/ i2 > i
           \/ i2 = i /\ j2 > j
           \/ i2 = i /\ j2 = j /\ k2 > k

\* what remains in cell (i, j) of the elements appended to it: an element appended
\* again later has moved on, so the cell holds those not appended later, in list order
StaysIn(data, i, j) ==
    LET keep == {k \in 1..Len(data[i][j].l) : ~AppendedLater(data, i, j, k)}
        nth(m) == CHOOSE k \in keep : Cardinality({k2 \in keep : k2 <= k}) = m
    IN [m \in 1..Cardinality(keep) |-> data[i][j].l[nth(m)]]

\* C4: createTable returns a new table with one row per input row in input order
\* and one cell per input cell in input order; row 0 has th cells, every other row
\* td cells; a string cell is the cell's markup, an element or a list of elements is
\* appended in list order (an element handed over again in a later cell moves there).
C4_TableShape ==
    pc = "returned" =>
        LET data == arg.data
            rows == nodes[ret].kids
        IN /\ ret > Len(arg.before)
           /\ nodes[ret].tag = "table"
           /\ Len(rows) = Len(data)
           /\ \A i \in 1..Len(data) :
                LET cells == nodes[rows[i]].kids
                IN /\ nodes[rows[i]].tag = "tr"
                   /\ Len(cells) = Len(data[i])
                   /\ \A j \in 1..Len(cells) :
                        LET c == nodes[cells[j]]
                        IN /\ c.tag = (IF i = 1 THEN "th" ELSE "td")
                           /\ IF data[i][j].t = "str"
                              THEN /\ Len(c.kids) = 1
                                   /\ nodes[c.kids[1]] = Markup(data[i][j].s)
                              ELSE c.kids = StaysIn(data, i, j)

\* the rows [["H"], ["a"]], and a list cell whose elements all stay
C4_Witness ==
    /\ pc = "returned"
    /\ \/ arg.data = << <<StrCell(<<"H">>)>>, <<StrCell(<<"a">>)>> >>
       \/ arg.data = << <<StrCell(<<"H">>)>>, <<ListCell(<<4, 3>>), StrCell(<<"a">>)>> >>
    /\ nodes[nodes[nodes[ret].kids[2]].kids[1]].tag = "td"

====
